---- MODULE Spec2Model ----
(***************************************************************************)
(* Transcript alignment engine of voicesharer (ChapterDisplay and          *)
(* utils/alignTranscript): tokenizer, diff alignment of chapter words with *)
(* speech-engine words, timestamp interpolation and the current-token      *)
(* locator, driven by the AudioPlayer's time updates; and the server-side  *)
(* timing of the chapters (lib/transcription) that the player is given.    *)
(* The server's routes that store what the player shows are modelled as    *)
(* well: upload and process-transcription over the Recording and           *)
(* Transcript tables, the comments route and the files route.              *)
(*                                                                         *)
(* Text is a sequence of one-character strings.  Times are integers in     *)
(* ticks; Cs(n) is n hundredths of a second.  A tick is small enough that  *)
(* every halving the interpolation does within the bounds is exact.        *)
(***************************************************************************)
EXTENDS Integers, Sequences, FiniteSets, Bags, TLC

VARIABLES chaptersData, chapters, wordTimestamps, chapterTokensMap, firstPassMap,
          currentTime, currentChapterIndex, pc,
          recordings, transcripts, passes, calls, comments, response

\* The state of the player and of the chapter timing.
playerVars == <<chaptersData, chapters, wordTimestamps, chapterTokensMap,
                firstPassMap, currentTime, currentChapterIndex, pc>>

\* The state of the server: the Recording, Transcript and Comment tables, the
\* process-transcription requests in flight, the calls made to the speech
\* engine for each recording, and the last response of a route.
serverVars == <<recordings, transcripts, passes, calls, comments, response>>

vars == <<chaptersData, chapters, wordTimestamps, chapterTokensMap, firstPassMap,
          currentTime, currentChapterIndex, pc,
          recordings, transcripts, passes, calls, comments, response>>

\* ------------------------------------------------------------------ time

\* n hundredths of a second, in ticks (1 tick = 1/6400 s).
Cs(n) == n * 64

\* An optional number (start?: number): <<>> is undefined, <<v>> is v.
None == <<>>

Some(v) == <<v>>

Min(a, b) == IF a <= b THEN a ELSE b

Max(a, b) == IF a >= b THEN a ELSE b

\* ------------------------------------------------------------ characters

LowerSeq == <<"a","b","c","d","e","f","g","h","i","j","k","l","m",
              "n","o","p","q","r","s","t","u","v","w","x","y","z">>

UpperSeq == <<"A","B","C","D","E","F","G","H","I","J","K","L","M",
              "N","O","P","Q","R","S","T","U","V","W","X","Y","Z">>

Digits == {"0","1","2","3","4","5","6","7","8","9"}

Range(s) == {s[i] : i \in DOMAIN s}

\* \s of the regular expressions, and what trim() removes.
Whitespace == {" ", "\t", "\n"}

\* The class [.,?!;:"'()-] of normalize and tokenize.
PunctChars == {".", ",", "?", "!", ";", ":", "\"", "'", "(", ")", "-"}

\* The class [a-zA-Z0-9'] of tokenize's word match.
WordChars == Range(LowerSeq) \cup Range(UpperSeq) \cup Digits \cup {"'"}

\* String.prototype.toLowerCase, one character.
ToLowerChar(c) ==
  IF c \in Range(UpperSeq)
    THEN LowerSeq[CHOOSE i \in DOMAIN UpperSeq : UpperSeq[i] = c]
    ELSE c

ToLowerCase(s) == [i \in DOMAIN s |-> ToLowerChar(s[i])]

\* Length of the longest prefix of s made of characters of set S.
PrefixLen(s, S) ==
  CHOOSE n \in 0..Len(s) :
    /\ \A i \in 1..n : s[i] \in S
    /\ (n < Len(s) => s[n + 1] \notin S)

\* Length of the longest suffix of s made of characters of set S.
SuffixLen(s, S) ==
  CHOOSE n \in 0..Len(s) :
    /\ \A i \in (Len(s) - n + 1)..Len(s) : s[i] \in S
    /\ (n < Len(s) => s[Len(s) - n] \notin S)

\* String.prototype.trim.
Trim(s) ==
  LET a == PrefixLen(s, Whitespace)
      b == SuffixLen(s, Whitespace)
  IN  IF a = Len(s) THEN <<>> ELSE SubSeq(s, a + 1, Len(s) - b)

RemovePunct(s) == SelectSeq(s, LAMBDA c : c \notin PunctChars)

\* normalize: lowercase, punctuation stripped, trimmed.
normalize(word) == Trim(RemovePunct(ToLowerCase(word)))

\* text.match(/\S+/g) || []: the maximal runs of non-whitespace.
RECURSIVE NonSpaceRuns(_)
NonSpaceRuns(s) ==
  IF s = <<>> THEN <<>>
  ELSE IF Head(s) \in Whitespace THEN NonSpaceRuns(Tail(s))
  ELSE LET n == CHOOSE k \in 1..Len(s) :
                  /\ \A i \in 1..k : s[i] \notin Whitespace
                  /\ (k < Len(s) => s[k + 1] \in Whitespace)
       IN  <<SubSeq(s, 1, n)>> \o NonSpaceRuns(SubSeq(s, n + 1, Len(s)))

\* Array.prototype.join(sep) over texts.
RECURSIVE Join(_, _)
Join(parts, sep) ==
  IF parts = <<>> THEN <<>>
  ELSE IF Len(parts) = 1 THEN parts[1]
  ELSE parts[1] \o sep \o Join(Tail(parts), sep)

\* ------------------------------------------------------------- tokenizer

Tok(text, isPunct) == [text |-> text, isPunctuation |-> isPunct]

\* The tokens of one whitespace-delimited fragment (the loop body of tokenize).
TokenizePart(part) ==
  LET normalized == normalize(part)
  IN  IF normalized = <<>> THEN <<Tok(part, TRUE)>>
      ELSE IF normalized = ToLowerCase(part) THEN <<Tok(part, FALSE)>>
      ELSE
        LET lead  == PrefixLen(part, PunctChars)
            \* /[a-zA-Z0-9']+/: the leftmost maximal run of word characters
            hasW  == \E i \in 1..Len(part) : part[i] \in WordChars
            wFrom == CHOOSE i \in 1..Len(part) :
                       /\ part[i] \in WordChars
                       /\ \A j \in 1..(i - 1) : part[j] \notin WordChars
            wLen  == PrefixLen(SubSeq(part, wFrom, Len(part)), WordChars)
            trail == SuffixLen(part, PunctChars)
            \* trailMatch.index, 0-based
            tIdx  == Len(part) - trail
        IN  (IF lead > 0 THEN <<Tok(SubSeq(part, 1, lead), TRUE)>> ELSE <<>>)
            \o (IF hasW THEN <<Tok(SubSeq(part, wFrom, wFrom + wLen - 1), FALSE)>>
                        ELSE <<>>)
            \o (IF trail > 0 /\ tIdx > 0
                  THEN <<Tok(SubSeq(part, tIdx + 1, Len(part)), TRUE)>>
                  ELSE <<>>)

RECURSIVE TokenizeParts(_)
TokenizeParts(parts) ==
  IF parts = <<>> THEN <<>>
  ELSE TokenizePart(Head(parts)) \o TokenizeParts(Tail(parts))

tokenize(text) == TokenizeParts(NonSpaceRuns(text))

\* ------------------------------------------------------- sequence aligner

\* Length of a longest common subsequence of word lists a and b.
RECURSIVE LcsLen(_, _)
LcsLen(a, b) ==
  IF a = <<>> \/ b = <<>> THEN 0
  ELSE IF Head(a) = Head(b) THEN 1 + LcsLen(Tail(a), Tail(b))
  ELSE Max(LcsLen(Tail(a), b), LcsLen(a, Tail(b)))

Change(words, added, removed) ==
  [value |-> words, added |-> added, removed |-> removed]

\* A shortest edit script from word list a to word list b, one change per word.
RECURSIVE EditScript(_, _)
EditScript(a, b) ==
  IF a = <<>> THEN [i \in 1..Len(b) |-> Change(<<b[i]>>, TRUE, FALSE)]
  ELSE IF b = <<>> THEN [i \in 1..Len(a) |-> Change(<<a[i]>>, FALSE, TRUE)]
  ELSE IF Head(a) = Head(b)
    THEN <<Change(<<Head(a)>>, FALSE, FALSE)>> \o EditScript(Tail(a), Tail(b))
  ELSE IF LcsLen(Tail(a), b) >= LcsLen(a, Tail(b))
    THEN <<Change(<<Head(a)>>, FALSE, TRUE)>> \o EditScript(Tail(a), b)
  ELSE <<Change(<<Head(b)>>, TRUE, FALSE)>> \o EditScript(a, Tail(b))

\* Consecutive changes of one kind joined into one change object.
RECURSIVE GroupChanges(_)
GroupChanges(cs) ==
  IF Len(cs) <= 1 THEN cs
  ELSE LET rest == GroupChanges(Tail(cs))
           c    == Head(cs)
           r    == Head(rest)
       IN  IF c.added = r.added /\ c.removed = r.removed
             THEN <<Change(c.value \o r.value, c.added, c.removed)>> \o Tail(rest)
             ELSE <<c>> \o rest

\* diffWords(oldStr, newStr) of the 'diff' package, at the granularity the
\* caller reads it: the strings are compared word by word (whitespace runs
\* separate words and are not themselves compared), the result is the list of
\* change objects of a longest-common-subsequence diff, and a change's value
\* is kept as its list of words, so that
\* part.value.split(/\s+/).filter(w => w.length > 0).length is Len(part.value).
diffWords(oldStr, newStr) ==
  GroupChanges(EditScript(NonSpaceRuns(oldStr), NonSpaceRuns(newStr)))

\* wordTimestamps.filter(wt => wt.startTime >= start - 2 && wt.startTime <= end + 2)
RelevantTimestamps_FromPlayhead(chapter, wts) ==
  SelectSeq(wts, LAMBDA wt : /\ wt.startTime >= chapter.startTime - Cs(200)
                             /\ wt.startTime <= chapter.endTime + Cs(200)
                             /\ wt.endTime >= currentTime)

RelevantTimestamps_Unfiltered(chapter, wts) == wts

RelevantTimestamps(chapter, wts) ==
  SelectSeq(wts, LAMBDA wt : /\ wt.startTime >= chapter.startTime - Cs(200)
                             /\ wt.startTime <= chapter.endTime + Cs(200))

\* chapterTokens.filter(t => !t.isPunctuation).map(t => normalize(t.text))
ChapterWords(chapterTokens) ==
  LET ws == SelectSeq(chapterTokens, LAMBDA t : ~t.isPunctuation)
  IN  [i \in DOMAIN ws |-> normalize(ws[i].text)]

WhisperWords(relevant) == [i \in DOMAIN relevant |-> normalize(relevant[i].word)]

\* The guard of the mapping loop: index < relevantTimestamps.length
IndexInRange_Unguarded(index, relevant) == TRUE

IndexInRange(index, relevant) == index < Len(relevant)

\* The entries one equal change adds to wordTimestampMap (keys are 0-based
\* chapter word indices).
EqualEntries(wordCount, chapterWordIdx, whisperWordIdx, relevant) ==
  LET is == {i \in 0..(wordCount - 1) : IndexInRange(whisperWordIdx + i, relevant)}
  IN  [k \in {chapterWordIdx + i : i \in is} |->
         [start |-> relevant[whisperWordIdx + (k - chapterWordIdx) + 1].startTime,
          end   |-> relevant[whisperWordIdx + (k - chapterWordIdx) + 1].endTime]]

\* The loop over the diff: wordTimestampMap after the changes of diff, started
\* with the two running indices.
RECURSIVE MapDiff(_, _, _, _)
MapDiff(diff, chapterWordIdx, whisperWordIdx, relevant) ==
  IF diff = <<>> THEN <<>>
  ELSE
    LET part      == Head(diff)
        wordCount == Len(part.value)
    IN  IF ~part.added /\ ~part.removed
          THEN MapDiff(Tail(diff), chapterWordIdx + wordCount,
                       whisperWordIdx + wordCount, relevant)
               @@ EqualEntries(wordCount, chapterWordIdx, whisperWordIdx, relevant)
        ELSE IF part.removed
          THEN MapDiff(Tail(diff), chapterWordIdx + wordCount, whisperWordIdx, relevant)
        ELSE MapDiff(Tail(diff), chapterWordIdx, whisperWordIdx + wordCount, relevant)

\* wordTimestampMap of a chapter: chapter word index -> {start, end}.
WordTimestampMap(chapterTokens, relevant) ==
  LET chapterWordString == Join(ChapterWords(chapterTokens), <<" ">>)
      whisperWordString == Join(WhisperWords(relevant), <<" ">>)
  IN  MapDiff(diffWords(chapterWordString, whisperWordString), 0, 0, relevant)

\* The loop over the diff reads .startTime of relevantTimestamps[index] where
\* that element is undefined, which raises a TypeError: some equal change lets
\* an index through its guard that is not an index of relevant.
RECURSIVE MapDiffThrows(_, _, _)
MapDiffThrows(diff, whisperWordIdx, relevant) ==
  IF diff = <<>> THEN FALSE
  ELSE
    LET part      == Head(diff)
        wordCount == Len(part.value)
    IN  IF ~part.added /\ ~part.removed
          THEN \/ \E i \in 0..(wordCount - 1) :
                    /\ IndexInRange(whisperWordIdx + i, relevant)
                    /\ whisperWordIdx + i >= Len(relevant)
               \/ MapDiffThrows(Tail(diff), whisperWordIdx + wordCount, relevant)
        ELSE IF part.removed
          THEN MapDiffThrows(Tail(diff), whisperWordIdx, relevant)
        ELSE MapDiffThrows(Tail(diff), whisperWordIdx + wordCount, relevant)

AlignedToken(text, isPunct, start, end) ==
  [text |-> text, isPunctuation |-> isPunct, start |-> start, end |-> end]

\* "Build final token array with timestamps": result before the second pass.
RECURSIVE BuildResult_TimedPunctuation(_, _, _)
BuildResult_TimedPunctuation(chapterTokens, wordCounter, map) ==
  IF chapterTokens = <<>> THEN <<>>
  ELSE
    LET token == Head(chapterTokens)
        timed(isPunct, k) ==
          IF k \in DOMAIN map
            THEN <<AlignedToken(token.text, isPunct, Some(map[k].start),
                                Some(map[k].end))>>
            ELSE <<AlignedToken(token.text, isPunct, None, None)>>
    IN  IF token.isPunctuation
          THEN timed(TRUE, wordCounter - 1)
               \o BuildResult_TimedPunctuation(Tail(chapterTokens), wordCounter, map)
        ELSE timed(FALSE, wordCounter)
             \o BuildResult_TimedPunctuation(Tail(chapterTokens), wordCounter + 1, map)

RECURSIVE BuildResult(_, _, _)
BuildResult(chapterTokens, wordCounter, map) ==
  IF chapterTokens = <<>> THEN <<>>
  ELSE
    LET token == Head(chapterTokens)
    IN  IF token.isPunctuation
          THEN <<AlignedToken(token.text, TRUE, None, None)>>
               \o BuildResult(Tail(chapterTokens), wordCounter, map)
        ELSE (IF wordCounter \in DOMAIN map
                THEN <<AlignedToken(token.text, FALSE, Some(map[wordCounter].start),
                                    Some(map[wordCounter].end))>>
                ELSE <<AlignedToken(token.text, FALSE, None, None)>>)
             \o BuildResult(Tail(chapterTokens), wordCounter + 1, map)

\* ----------------------------------------------------------- interpolator

\* The backward scan: the end of the nearest earlier word that has one.
PrevTime(result, i) ==
  LET js == {j \in 1..(i - 1) : ~result[j].isPunctuation /\ result[j].end # None}
  IN  IF js = {} THEN None
      ELSE result[CHOOSE j \in js : \A k \in js : k <= j].end

\* The forward scan: the start of the nearest later word that has one.
NextTime(result, i) ==
  LET js == {j \in (i + 1)..Len(result) :
               ~result[j].isPunctuation /\ result[j].start # None}
  IN  IF js = {} THEN None
      ELSE result[CHOOSE j \in js : \A k \in js : j <= k].start

\* (nextTime - prevTime) / 2
HalfGap(prevTime, nextTime) == (nextTime - prevTime) \div 2

\* Both neighbours found: the window given to the token.
InterpolateBoth_Midpoint(prevTime, nextTime) ==
  [start |-> prevTime + Cs(5), end |-> (prevTime + Cs(5) + nextTime) \div 2]

InterpolateBoth(prevTime, nextTime) ==
  LET avgWordDuration == Min(HalfGap(prevTime, nextTime), Cs(50))
      start == prevTime + Cs(5)
  IN  [start |-> start, end |-> start + avgWordDuration]

\* Only a previous neighbour found.
InterpolatePrevOnly_NoOffset(prevTime) ==
  [start |-> prevTime, end |-> prevTime + Cs(50)]

InterpolatePrevOnly(prevTime) ==
  LET start == prevTime + Cs(5)
  IN  [start |-> start, end |-> start + Cs(50)]

\* Only a following neighbour found.
InterpolateNextOnly_NoClamp(nextTime) ==
  [start |-> nextTime - Cs(55), end |-> nextTime - Cs(5)]

InterpolateNextOnly(nextTime) ==
  [start |-> Max(0, nextTime - Cs(55)), end |-> nextTime - Cs(5)]

\* One iteration of the second pass: result with token i interpolated.
InterpolateToken_DefaultWindow(result, i) ==
  LET token    == result[i]
      prevTime == PrevTime(result, i)
      nextTime == NextTime(result, i)
      set(w)   == [result EXCEPT ![i].start = Some(w.start), ![i].end = Some(w.end)]
  IN  IF token.isPunctuation \/ token.start # None THEN result
      ELSE IF prevTime # None /\ nextTime # None
        THEN set(InterpolateBoth(prevTime[1], nextTime[1]))
      ELSE IF prevTime # None THEN set(InterpolatePrevOnly(prevTime[1]))
      ELSE IF nextTime # None THEN set(InterpolateNextOnly(nextTime[1]))
      ELSE set([start |-> Cs(5), end |-> Cs(55)])

InterpolateToken(result, i) ==
  LET token    == result[i]
      prevTime == PrevTime(result, i)
      nextTime == NextTime(result, i)
      set(w)   == [result EXCEPT ![i].start = Some(w.start), ![i].end = Some(w.end)]
  IN  IF token.isPunctuation \/ token.start # None THEN result
      ELSE IF prevTime # None /\ nextTime # None
        THEN set(InterpolateBoth(prevTime[1], nextTime[1]))
      ELSE IF prevTime # None THEN set(InterpolatePrevOnly(prevTime[1]))
      ELSE IF nextTime # None THEN set(InterpolateNextOnly(nextTime[1]))
      ELSE result

\* The second pass from index i on, in place.
InterpolateFrom_FromFirstPass(result, i) ==
  [k \in DOMAIN result |-> IF k < i THEN result[k] ELSE InterpolateToken(result, k)[k]]

RECURSIVE InterpolateFrom(_, _)
InterpolateFrom(result, i) ==
  IF i > Len(result) THEN result
  ELSE InterpolateFrom(InterpolateToken(result, i), i + 1)

\* The first pass over one chapter: whether it raises an exception, and if not
\* its result (empty chapters return before the diff, with no tokens).
Alignment(chapter, wts) ==
  LET chapterTokens == tokenize(Join(chapter.sentences, <<" ">>))
      relevant      == RelevantTimestamps(chapter, wts)
      diff          == diffWords(Join(ChapterWords(chapterTokens), <<" ">>),
                                 Join(WhisperWords(relevant), <<" ">>))
      throws        == Len(chapterTokens) # 0 /\ MapDiffThrows(diff, 0, relevant)
  IN  [throws |-> throws,
       result |-> IF Len(chapterTokens) = 0 \/ throws THEN <<>>
                  ELSE BuildResult(chapterTokens, 0, MapDiff(diff, 0, 0, relevant))]

\* result of one chapter at the end of the first pass.
FirstPass(chapter, wts) == Alignment(chapter, wts).result

\* The computation of one chapter's tokens raises an exception.
Throws(chapter, wts) == Alignment(chapter, wts).throws

\* ------------------------------------------- whole-transcript alignment

\* The class [\w'] of getWordsWithPunctuation's word alternative.
AlignWordChars == WordChars \cup {"_"}

\* The class [.,!?;:"'...\-\u2014] of its punctuation alternative; the ellipsis
\* and the em dash are written by their code points.
AlignPunctChars ==
  {".", ",", "!", "?", ";", ":", "\"", "'", "U+2026", "-", "U+2014"}

\* fullText.match(/[\w']+|[.,!?;:"'...\-\u2014]+/g) || []: at each position the
\* longest word run, else the longest punctuation run, else the character is
\* skipped.
RECURSIVE TextTokens(_)
TextTokens(text) ==
  IF text = <<>> THEN <<>>
  ELSE
    LET w == PrefixLen(text, AlignWordChars)
        p == PrefixLen(text, AlignPunctChars)
    IN  IF w > 0
          THEN <<SubSeq(text, 1, w)>> \o TextTokens(SubSeq(text, w + 1, Len(text)))
        ELSE IF p > 0
          THEN <<SubSeq(text, 1, p)>> \o TextTokens(SubSeq(text, p + 1, Len(text)))
        ELSE TextTokens(Tail(text))

\* String.prototype.includes
Includes(s, sub) ==
  \E from \in 1..(Len(s) - Len(sub) + 1) : SubSeq(s, from, from + Len(sub) - 1) = sub

\* The loop of getWordsWithPunctuation from timestampIndex on.
RECURSIVE AlignTextTokens(_, _, _)
AlignTextTokens(textTokens, wts, timestampIndex) ==
  IF textTokens = <<>> THEN <<>>
  ELSE
    LET textToken == Head(textTokens)
        untimed   == AlignedToken(textToken, FALSE, None, None)
    IN  IF \A n \in DOMAIN textToken : textToken[n] \in AlignPunctChars
          THEN <<AlignedToken(textToken, TRUE, None, None)>>
               \o AlignTextTokens(Tail(textTokens), wts, timestampIndex)
        ELSE IF timestampIndex < Len(wts)
          THEN
            LET timestampWord == Trim(ToLowerCase(wts[timestampIndex + 1].word))
                textWord      == Trim(ToLowerCase(textToken))
            IN  IF \/ timestampWord = textWord
                   \/ Includes(timestampWord, textWord)
                   \/ Includes(textWord, timestampWord)
                  THEN <<AlignedToken(textToken, FALSE,
                                      Some(wts[timestampIndex + 1].startTime),
                                      Some(wts[timestampIndex + 1].endTime))>>
                       \o AlignTextTokens(Tail(textTokens), wts, timestampIndex + 1)
                  ELSE <<untimed>>
                       \o AlignTextTokens(Tail(textTokens), wts, timestampIndex)
        ELSE <<untimed>> \o AlignTextTokens(Tail(textTokens), wts, timestampIndex)

getWordsWithPunctuation(fullText, wts) == AlignTextTokens(TextTokens(fullText), wts, 0)

\* ---------------------------------------------------------------- locator

\* JavaScript !x for an optional number: undefined and 0 are falsy.
Falsy(x) == x = None \/ x = Some(0)

isCurrentToken_PunctuationActive(time, token) ==
  IF Falsy(token.start) \/ Falsy(token.end) THEN FALSE
  ELSE /\ time >= token.start[1] - Cs(1)
       /\ time < token.end[1] - Cs(1)

isCurrentToken(time, token) ==
  IF token.isPunctuation \/ Falsy(token.start) \/ Falsy(token.end) THEN FALSE
  ELSE /\ time >= token.start[1] - Cs(1)
       /\ time < token.end[1] - Cs(1)

\* findCurrentChapterIndex: 0-based index of the first chapter whose window
\* holds the time, -1 when there is none.
findCurrentChapterIndex(time, chs) ==
  LET hit(idx) ==
        IF idx = Len(chs)
          THEN /\ time >= chs[idx].startTime - Cs(1)
               /\ time <= chs[idx].endTime + Cs(1)
          ELSE /\ time >= chs[idx].startTime - Cs(1)
               /\ time < chs[idx].endTime - Cs(1)
      hits == {idx \in 1..Len(chs) : hit(idx)}
  IN  IF hits = {} THEN -1
      ELSE (CHOOSE idx \in hits : \A k \in hits : idx <= k) - 1

\* ----------------------------------------------------------------- inputs

MaxChapterWords == 3

MaxSpeechWords == 2

MaxTextLen == 4

hello == <<"h", "e", "l", "l", "o">>

there == <<"t", "h", "e", "r", "e">>

world == <<"w", "o", "r", "l", "d">>

\* Whitespace-delimited fragments a chapter sentence is made of.
ChapterFragments == {<<"H", "e", "l", "l", "o", ",">>, there, world}

\* Words the speech engine reports; "-" normalizes to the empty string.
SpeechVocabulary == {hello, world, <<"-">>}

\* Start of the first speech word, gap between two words, length of a word.
FirstStarts == {0, Cs(3), Cs(250)}

SpeechGaps == {Cs(4), Cs(120)}

SpeechWordLength == Cs(40)

\* The speech words ws, in order, the first starting at first and word k + 1
\* starting gaps[k] after the end of word k: chronological and not overlapping.
SpeechList(ws, first, gaps) ==
  LET startOf[k \in 1..Len(ws)] ==
        IF k = 1 THEN first
        ELSE startOf[k - 1] + SpeechWordLength + gaps[k - 1]
  IN  [k \in 1..Len(ws) |->
         [word |-> ws[k], startTime |-> startOf[k],
          endTime |-> startOf[k] + SpeechWordLength]]

SpeechLists ==
  UNION {{SpeechList(ws, first, gaps) :
            ws \in [1..n -> SpeechVocabulary], first \in FirstStarts,
            gaps \in [1..(n - 1) -> SpeechGaps]} : n \in 1..MaxSpeechWords}
  \cup {<<>>}

Chapter(sentences, startTime, endTime) ==
  [sentences |-> sentences, startTime |-> startTime, endTime |-> endTime]

\* (startTime, endTime) of the modelled chapter: the first chapter of a
\* recording, and a later one.
ChapterWindows == {<<0, 0>>, <<Cs(300), Cs(400)>>}

ChapterTexts ==
  UNION {{Join(fs, <<" ">>) : fs \in [1..n -> ChapterFragments]} :
           n \in 0..MaxChapterWords}

\* One chapter whose only sentence is a text of ChapterTexts.
ChapterLists ==
  {<<Chapter(IF t = <<>> THEN <<>> ELSE <<t>>, w[1], w[2])>> :
     t \in ChapterTexts, w \in ChapterWindows}

\* The two worked examples of the alignment: "hello world" and
\* "hello there world" against speech words hello(0, 0.4), world(0.5, 0.9) and
\* hello(0, 0.4), world(1.0, 1.4).
ExampleInputs ==
  {<<<<Chapter(<<hello \o <<" ">> \o world>>, 0, Cs(90))>>,
     <<[word |-> hello, startTime |-> 0, endTime |-> Cs(40)],
       [word |-> world, startTime |-> Cs(50), endTime |-> Cs(90)]>>>>,
   <<<<Chapter(<<hello \o <<" ">> \o there \o <<" ">> \o world>>, 0, Cs(140))>>,
     <<[word |-> hello, startTime |-> 0, endTime |-> Cs(40)],
       [word |-> world, startTime |-> Cs(100), endTime |-> Cs(140)]>>>>}

Inputs == (ChapterLists \X SpeechLists) \cup ExampleInputs

\* Characters of the texts the tokenizer is explored on.
TextAlphabet == {"a", "B", ".", "'", "#", " "}

Texts == UNION {[1..n -> TextAlphabet] : n \in 0..MaxTextLen}

TextInputs ==
  {<<Chapter(<<t>>, 0, Cs(100))>> : t \in Texts}
  \X {<<>>, <<[word |-> <<"a">>, startTime |-> Cs(10), endTime |-> Cs(50)]>>}

\* Playback times the audio element reports.
PlaybackTimes == {Cs(10), Cs(44), Cs(300)}

\* --------------------------------------------- server-side chapter timing

\* The class [.,!?;:] the server strips before comparing words.
ServerMarks == {".", ",", "!", "?", ";", ":"}

StripMarks(word) == SelectSeq(word, LAMBDA ch : ch \notin ServerMarks)

\* wordTimestamps[i].word.toLowerCase().replace(/[.,!?;:]/g, ''), i 0-based
TranscriptWordAt(wts, i) == StripMarks(ToLowerCase(wts[i + 1].word))

\* The inner loop of the start search at position i: the number of leading
\* chapter words matched before the first mismatch.
MatchedAt(chapterWords, wts, i, wordsToMatch) ==
  CHOOSE matched \in 0..wordsToMatch :
    /\ \A j \in 0..(matched - 1) :
         TranscriptWordAt(wts, i + j) = StripMarks(chapterWords[j + 1])
    /\ matched < wordsToMatch =>
         TranscriptWordAt(wts, i + matched) # StripMarks(chapterWords[matched + 1])

\* The end search from position i: chapter words matched in order, each at the
\* next transcript word equal to it.
RECURSIVE EndScan(_, _, _, _, _, _)
EndScan(chapterWords, wts, i, wordIdx, endIndex, endTime) ==
  IF i >= Len(wts) \/ wordIdx >= Len(chapterWords)
    THEN [endIndex |-> endIndex, endTime |-> endTime]
  ELSE IF TranscriptWordAt(wts, i) = StripMarks(chapterWords[wordIdx + 1])
    THEN EndScan(chapterWords, wts, i + 1, wordIdx + 1, i, wts[i + 1].endTime)
  ELSE EndScan(chapterWords, wts, i + 1, wordIdx, endIndex, endTime)

findChapterTimestamps(sentences, wts, searchStartIndex) ==
  IF Len(sentences) = 0 \/ Len(wts) = 0
    THEN [startTime |-> 0, endTime |-> 0, endIndex |-> searchStartIndex]
  ELSE
    LET chapterWords   == NonSpaceRuns(ToLowerCase(Join(sentences, <<" ">>)))
        WORDS_TO_MATCH == Min(5, Len(chapterWords))
        starts == {i \in searchStartIndex..(Len(wts) - WORDS_TO_MATCH - 1) :
                     MatchedAt(chapterWords, wts, i, WORDS_TO_MATCH)
                       >= Min(3, WORDS_TO_MATCH)}
        foundStart == starts # {}
        startIndex == IF foundStart
                        THEN CHOOSE i \in starts : \A k \in starts : i <= k
                        ELSE searchStartIndex
        \* wordTimestamps[searchStartIndex]?.startTime || 0 when not found
        startTime  == IF startIndex < Len(wts) THEN wts[startIndex + 1].startTime ELSE 0
        end        == EndScan(chapterWords, wts, startIndex, 0, startIndex, 0)
    IN  [startTime |-> startTime, endTime |-> end.endTime,
         endIndex |-> end.endIndex + 1]

\* The loop of addTimestampsToChapters from searchStartIndex on.
RECURSIVE TimeChapters(_, _, _)
TimeChapters(data, wts, searchStartIndex) ==
  IF data = <<>> THEN <<>>
  ELSE
    LET chapter    == Head(data)
        timestamps == findChapterTimestamps(chapter.sentences, wts, searchStartIndex)
    IN  <<Chapter(chapter.sentences, timestamps.startTime, timestamps.endTime)>>
        \o TimeChapters(Tail(data), wts, timestamps.endIndex)

addTimestampsToChapters(data, wts) == TimeChapters(data, wts, 0)

\* transcript.fullText: the text the speech engine returns with its words.
fullText(wts) == Join([k \in DOMAIN wts |-> wts[k].word], <<" ">>)

createFallbackChapters(text, wts) ==
  IF Len(wts) = 0 THEN <<Chapter(<<text>>, 0, 0)>>
  ELSE <<Chapter(<<text>>, wts[1].startTime, wts[Len(wts)].endTime)>>

\* What the language model returns for one chapter.
ChapterData(sentences) == [sentences |-> sentences]

MaxChapters == 2

MaxTranscriptWords == 2

\* Sentence lists of the chapters the language model returns.
ScriptSentenceLists ==
  {<<>>, <<<<"a">>>>, <<<<"a">>, <<"B", ".">>>>, <<<<"-">>>>}

ChapterDataLists ==
  UNION {[1..n -> {ChapterData(sl) : sl \in ScriptSentenceLists}] : n \in 0..MaxChapters}

\* Words of the speech engine; one of them holds a space.
TranscriptVocabulary == {<<"a">>, <<"b">>, <<"-">>, <<"a", " ", "b">>}

\* The k-th word is spoken from 0.1 + 0.5 (k - 1) s for 0.4 s.
Transcript(ws) ==
  [k \in DOMAIN ws |->
     [word |-> ws[k], startTime |-> Cs(10 + 50 * (k - 1)), endTime |-> Cs(50 * k)]]

Transcripts ==
  {Transcript(ws) : ws \in UNION {[1..n -> TranscriptVocabulary] : n \in 0..MaxTranscriptWords}}

\* ---------------------------------------------------------- state machine

\* No request has reached the server.
ServerIdle ==
  /\ recordings = <<>>
  /\ transcripts = {}
  /\ passes = EmptyBag
  /\ calls = <<>>
  /\ comments = <<>>
  /\ response = <<>>

Mounted ==
  /\ ServerIdle
  /\ chapterTokensMap = <<>>
  /\ firstPassMap = <<>>
  /\ currentTime = 0
  /\ currentChapterIndex = -1
  /\ pc = "mounted"

\* The player is mounted with the chapters of a stored transcript.
Init ==
  /\ \E input \in Inputs : chapters = input[1] /\ wordTimestamps = input[2]
  /\ chaptersData = [c \in DOMAIN chapters |-> ChapterData(chapters[c].sentences)]
  /\ Mounted

InitText ==
  /\ \E input \in TextInputs : chapters = input[1] /\ wordTimestamps = input[2]
  /\ chaptersData = [c \in DOMAIN chapters |-> ChapterData(chapters[c].sentences)]
  /\ Mounted

\* A recording is transcribed and the language model has returned the chapters.
InitPipeline ==
  /\ chaptersData \in ChapterDataLists
  /\ wordTimestamps \in Transcripts
  /\ chapters = <<>>
  /\ chapterTokensMap = <<>>
  /\ firstPassMap = <<>>
  /\ currentTime = 0
  /\ currentChapterIndex = -1
  /\ pc = "transcribed"
  /\ ServerIdle

\* generateChapters: the chapters stored with the transcript.
AddTimestampsToChapters ==
  /\ pc = "transcribed"
  /\ chapters' = addTimestampsToChapters(chaptersData, wordTimestamps)
  /\ pc' = "stored"
  /\ UNCHANGED <<chaptersData, wordTimestamps, chapterTokensMap, firstPassMap,
                 currentTime, currentChapterIndex>>
  /\ UNCHANGED serverVars

\* The AudioPlayer's chapters memo: the stored chapters, or one chapter made
\* of the whole transcript when there are none.
MountAudioPlayer ==
  /\ pc = "stored"
  /\ chapters' = IF Len(chapters) > 0 THEN chapters
                 ELSE createFallbackChapters(fullText(wordTimestamps), wordTimestamps)
  /\ pc' = "mounted"
  /\ UNCHANGED <<chaptersData, wordTimestamps, chapterTokensMap, firstPassMap,
                 currentTime, currentChapterIndex>>
  /\ UNCHANGED serverVars

\* The chapterTokensMap memo: every chapter tokenized, aligned and interpolated.
\* firstPassMap keeps result as it is when the second pass starts.  An
\* exception raised by the computation ends the rendering.
ChapterTokensMemo ==
  /\ \E aligned \in {[c \in DOMAIN chapters |-> Alignment(chapters[c], wordTimestamps)]} :
         IF \E c \in DOMAIN chapters : aligned[c].throws
           THEN /\ pc' = "error"
                /\ UNCHANGED <<firstPassMap, chapterTokensMap>>
           ELSE /\ firstPassMap' = [c \in DOMAIN chapters |-> aligned[c].result]
                /\ chapterTokensMap' =
                     [c \in DOMAIN chapters |-> InterpolateFrom(firstPassMap'[c], 1)]
                /\ pc' = "rendered"
  /\ UNCHANGED <<chaptersData, chapters, wordTimestamps, currentTime,
                 currentChapterIndex>>
  /\ UNCHANGED serverVars

\* The first render computes the memo.
ComputeChapterTokens == pc = "mounted" /\ ChapterTokensMemo

\* A later render with a transcript of new identity and equal content (the
\* page has fetched it again) computes the memo again.
RecomputeChapterTokens == pc = "rendered" /\ ChapterTokensMemo

\* AudioPlayer.handleTimeUpdate(newCurrentTime)
HandleTimeUpdate(newCurrentTime) ==
  /\ pc = "rendered"
  /\ currentTime' = newCurrentTime
  /\ LET chapterIndex == findCurrentChapterIndex(newCurrentTime, chapters)
     IN  currentChapterIndex' =
           IF chapterIndex # -1 /\ chapterIndex # currentChapterIndex
             THEN chapterIndex ELSE currentChapterIndex
  /\ UNCHANGED <<chaptersData, chapters, wordTimestamps, chapterTokensMap,
                 firstPassMap, pc>>
  /\ UNCHANGED serverVars

\* AudioPlayer.jumpToChapter(chapterIndex), chapterIndex 0-based: the audio is
\* sought to the chapter's start and seekAudio reports the new time at once.
JumpToChapter(chapterIndex) ==
  /\ chapterIndex \in 0..(Len(chapters) - 1)
  /\ HandleTimeUpdate(chapters[chapterIndex + 1].startTime)

\* The player of a chapter display that is rendered once and follows the
\* audio element.
Next ==
  \/ ComputeChapterTokens
  \/ \E t \in PlaybackTimes : HandleTimeUpdate(t)

\* The whole path of a recording: the server times the chapters, the player
\* is mounted with them, listeners jump between chapters and the page may
\* render again.
NextPipeline ==
  \/ AddTimestampsToChapters
  \/ MountAudioPlayer
  \/ RecomputeChapterTokens
  \/ \E chapterIndex \in 0..(Len(chapters) - 1) : JumpToChapter(chapterIndex)
  \/ Next

Spec == Init /\ [][Next]_vars

SpecText == InitText /\ [][Next]_vars

SpecPipeline == InitPipeline /\ [][NextPipeline]_vars

TypeOK ==
  /\ pc \in {"unmounted", "transcribed", "stored", "mounted", "rendered", "error"}
  /\ currentChapterIndex \in -1..(Len(chapters) - 1)
  /\ DOMAIN chapterTokensMap \subseteq DOMAIN chapters

\* The alignedTokens memo: the whole transcript aligned in one piece.
alignedTokens ==
  getWordsWithPunctuation(
    Join([c \in DOMAIN chapters |-> Join(chapters[c].sentences, <<" ">>)], <<" ">>),
    wordTimestamps)

\* -------------------------------------------------------------- rendering

\* The text the transcript paragraph shows for one chapter: each token's text,
\* followed by a space where the token's branch of the renderer adds one.
RenderedText(tokens) ==
  LET piece(tokenIndex) ==
        LET token          == tokens[tokenIndex]
            last           == tokenIndex = Len(tokens)
            nextIsPunct    == ~last /\ tokens[tokenIndex + 1].isPunctuation
            shouldAddSpace == ~last /\ (~token.isPunctuation \/ ~nextIsPunct)
        IN  IF token.isPunctuation
              THEN token.text \o (IF shouldAddSpace THEN <<" ">> ELSE <<>>)
              ELSE token.text
                   \o (IF shouldAddSpace /\ ~nextIsPunct THEN <<" ">> ELSE <<>>)
      cat[n \in 0..Len(tokens)] == IF n = 0 THEN <<>> ELSE cat[n - 1] \o piece(n)
  IN  cat[Len(tokens)]

\* The word branch of the renderer: a word is clickable when it has a start,
\* and shown as the current word when it is clickable and the locator says so.
hasTimestamp(token) == token.start # None

isCurrentWord(time, token) == hasTimestamp(token) /\ isCurrentToken(time, token)

\* The word's onClick reaches onJumpToWord(token.start, chapterIndex).
CallsOnJumpToWord(token) == ~token.isPunctuation /\ hasTimestamp(token)

\* ------------------------------------------------- vocabulary of the claims

Rendered == pc = "rendered"

ChapterText(c) == Join(chapters[c].sentences, <<" ">>)

Relevant(c) == RelevantTimestamps(chapters[c], wordTimestamps)

IsWord(token) == ~token.isPunctuation

IsTimed(token) == IsWord(token) /\ token.start # None /\ token.end # None

\* Positions of chapter c's word tokens that the alignment left untimed.
Unmatched(c) ==
  {i \in DOMAIN firstPassMap[c] :
     IsWord(firstPassMap[c][i]) /\ firstPassMap[c][i].start = None}

\* Positions before i (after i) of the word tokens of tokens that have an end
\* (a start).
EndsBefore(tokens, i) == {j \in 1..(i - 1) : IsWord(tokens[j]) /\ tokens[j].end # None}

StartsAfter(tokens, i) ==
  {j \in (i + 1)..Len(tokens) : IsWord(tokens[j]) /\ tokens[j].start # None}

Largest(S) == CHOOSE j \in S : \A k \in S : k <= j

Smallest(S) == CHOOSE j \in S : \A k \in S : j <= k

\* What the interpolation of word i of chapter c sees: words before i already
\* hold their final times, words after i the times of the alignment.
HasPrev(c, i) == EndsBefore(chapterTokensMap[c], i) # {}

HasNext(c, i) == StartsAfter(firstPassMap[c], i) # {}

PrevEnd(c, i) == chapterTokensMap[c][Largest(EndsBefore(chapterTokensMap[c], i))].end[1]

NextStart(c, i) == firstPassMap[c][Smallest(StartsAfter(firstPassMap[c], i))].start[1]

RECURSIVE IsSubsequence(_, _)
IsSubsequence(a, b) ==
  IF a = <<>> THEN TRUE
  ELSE IF b = <<>> THEN FALSE
  ELSE IF Head(a) = Head(b) THEN IsSubsequence(Tail(a), Tail(b))
  ELSE IsSubsequence(a, Tail(b))

\* Token carries exactly the times of a speech word of the chapter's window
\* whose normalized text is the token's.
TimedByMatchingWord(c, token) ==
  \E k \in DOMAIN Relevant(c) :
    /\ token.start = Some(Relevant(c)[k].startTime)
    /\ token.end = Some(Relevant(c)[k].endTime)
    /\ normalize(Relevant(c)[k].word) = normalize(token.text)

\* ------------------------------------------------------------------ claims

\* C1: after interpolation, two timed word tokens A before B of a chapter with
\* no timed word token between them do not overlap: A.end <= B.start.
C1_Monotonic ==
  Rendered =>
    \A c \in DOMAIN chapterTokensMap :
      LET ts == chapterTokensMap[c]
      IN  \A a, b \in DOMAIN ts :
            (/\ a < b /\ IsTimed(ts[a]) /\ IsTimed(ts[b])
             /\ \A m \in (a + 1)..(b - 1) : ~IsTimed(ts[m]))
            => ts[a].end[1] <= ts[b].start[1]

\* Positions of the word tokens of chapter c the locator reports active.
ActiveTokens(c) ==
  {i \in DOMAIN chapterTokensMap[c] :
     IsWord(chapterTokensMap[c][i]) /\ isCurrentToken(currentTime, chapterTokensMap[c][i])}

\* C2: at every playback time at most one word token of a chapter is active,
\* and when the time increases the active token's position does not decrease.
C2_LocatorExclusive ==
  [][(Rendered /\ Rendered') =>
       \A c \in DOMAIN chapterTokensMap :
         /\ Cardinality(ActiveTokens(c)') <= 1
         /\ currentTime' > currentTime =>
              \A i \in ActiveTokens(c), j \in ActiveTokens(c)' : i <= j]_vars

\* C3: a word token with 0 <= start <= end is active at time t >= 0 exactly
\* when start - 0.01 <= t < end - 0.01.
C3_LocatorContract ==
  Rendered =>
    \A c \in DOMAIN chapterTokensMap : \A i \in DOMAIN chapterTokensMap[c] :
      LET token == chapterTokensMap[c][i]
      IN  (/\ IsTimed(token) /\ 0 <= token.start[1] /\ token.start[1] <= token.end[1]
           /\ currentTime >= 0)
          => (isCurrentToken(currentTime, token)
                <=> (/\ token.start[1] - Cs(1) <= currentTime
                     /\ currentTime < token.end[1] - Cs(1)))

\* Text has no leading or trailing whitespace and single spaces between its
\* fragments.
SingleSpaced(text) == text = Join(NonSpaceRuns(text), <<" ">>)

\* C4: the tokens of a chapter text, joined with the renderer's spacing,
\* reproduce the text (stated for texts whose fragments are separated by single
\* spaces, where the spacing itself cannot be what differs).
C4_RoundTrip ==
  Rendered =>
    \A c \in DOMAIN chapterTokensMap :
      SingleSpaced(ChapterText(c)) => RenderedText(chapterTokensMap[c]) = ChapterText(c)

\* C5: a word token timed by the alignment carries the times of a speech word
\* of the chapter's window with the same normalized text.
C5_EqualSegmentTransfer ==
  Rendered =>
    \A c \in DOMAIN firstPassMap : \A i \in DOMAIN firstPassMap[c] :
      (IsWord(firstPassMap[c][i]) /\ firstPassMap[c][i].start # None)
        => TimedByMatchingWord(c, firstPassMap[c][i])

\* C6: when the normalized chapter words are a subsequence of the normalized
\* speech words of the window, every chapter word gets the times of a matching
\* speech word and none is interpolated.
C6_SpeechOnlySkipped ==
  Rendered =>
    \A c \in DOMAIN firstPassMap :
      IsSubsequence(ChapterWords(tokenize(ChapterText(c))), WhisperWords(Relevant(c)))
        => /\ Unmatched(c) = {}
           /\ chapterTokensMap[c] = firstPassMap[c]
           /\ \A i \in DOMAIN firstPassMap[c] :
                IsWord(firstPassMap[c][i]) => TimedByMatchingWord(c, firstPassMap[c][i])

\* C7: an unmatched word with a previous known end and a following known start
\* gets start = prevEnd + 0.05 and end = start + min((nextStart - prevEnd)/2, 0.5).
C7_InterpolateBoth ==
  Rendered =>
    \A c \in DOMAIN chapterTokensMap : \A i \in Unmatched(c) :
      (HasPrev(c, i) /\ HasNext(c, i)) =>
        LET token == chapterTokensMap[c][i]
            gap   == NextStart(c, i) - PrevEnd(c, i)
        IN  /\ token.start = Some(PrevEnd(c, i) + Cs(5))
            /\ token.end # None
            /\ IF gap <= 2 * Cs(50)
                 THEN 2 * (token.end[1] - token.start[1]) = gap
                 ELSE token.end[1] - token.start[1] = Cs(50)

\* Reached: an unmatched word between two known neighbours less than a second
\* apart, so that the half gap and not the cap is its duration.
C7_Witness ==
  /\ Rendered
  /\ \E c \in DOMAIN chapterTokensMap : \E i \in Unmatched(c) :
       /\ HasPrev(c, i) /\ HasNext(c, i)
       /\ NextStart(c, i) - PrevEnd(c, i) \in 1..(2 * Cs(50) - 1)
       /\ IsTimed(chapterTokensMap[c][i])

\* C8: an unmatched word with no earlier timed word and a following known
\* start gets end = nextStart - 0.05 and start = max(0, end - 0.5).
C8_InterpolateNextOnly ==
  Rendered =>
    \A c \in DOMAIN chapterTokensMap : \A i \in Unmatched(c) :
      (~HasPrev(c, i) /\ HasNext(c, i)) =>
        LET token == chapterTokensMap[c][i]
        IN  /\ token.end = Some(NextStart(c, i) - Cs(5))
            /\ token.start = Some(Max(0, token.end[1] - Cs(50)))

\* Reached: the case with nextStart below 0.05 s.
C8_Witness ==
  /\ Rendered
  /\ \E c \in DOMAIN chapterTokensMap : \E i \in Unmatched(c) :
       /\ ~HasPrev(c, i) /\ HasNext(c, i)
       /\ NextStart(c, i) < Cs(5)
       /\ chapterTokensMap[c][i].end # None /\ chapterTokensMap[c][i].end[1] < 0

\* C9: an unmatched word with a previous known end and no later timed word
\* gets start = prevEnd + 0.05 and end = start + 0.5.
C9_InterpolatePrevOnly ==
  Rendered =>
    \A c \in DOMAIN chapterTokensMap : \A i \in Unmatched(c) :
      (HasPrev(c, i) /\ ~HasNext(c, i)) =>
        LET token == chapterTokensMap[c][i]
        IN  /\ token.start = Some(PrevEnd(c, i) + Cs(5))
            /\ token.end = Some(PrevEnd(c, i) + Cs(5) + Cs(50))

C9_Witness ==
  /\ Rendered
  /\ \E c \in DOMAIN chapterTokensMap : \E i \in Unmatched(c) :
       /\ HasPrev(c, i) /\ ~HasNext(c, i)
       /\ IsTimed(chapterTokensMap[c][i])

\* The worked example is the input: chapter words hello, there, world and
\* speech words hello(0, 0.4), world(1.0, 1.4) in the chapter's window.
IsWorkedExample(c) ==
  /\ Relevant(c) = <<[word |-> hello, startTime |-> 0, endTime |-> Cs(40)],
                     [word |-> world, startTime |-> Cs(100), endTime |-> Cs(140)]>>
  /\ ChapterWords(tokenize(ChapterText(c))) = <<hello, there, world>>

WordTokens(tokens) == SelectSeq(tokens, IsWord)

Abs(x) == IF x < 0 THEN -x ELSE x

\* C10 as stated: 'there' gets start = 0.45 and end within 0.01 s of 0.725,
\* strictly between its neighbours.
C10_WorkedExample ==
  Rendered =>
    \A c \in DOMAIN chapterTokensMap :
      IsWorkedExample(c) =>
        LET ws == WordTokens(chapterTokensMap[c])
        IN  /\ ws[2].start = Some(Cs(45))
            /\ ws[2].end # None
            /\ Abs(2 * ws[2].end[1] - Cs(145)) <= 2 * Cs(1)
            /\ ws[1].end[1] < ws[2].start[1]
            /\ ws[2].end[1] < ws[3].start[1]

\* C10 amended: 'there' gets start = 0.45 and end = 0.75, strictly between
\* its neighbours.
C10_WorkedExampleAmended ==
  Rendered =>
    \A c \in DOMAIN chapterTokensMap :
      IsWorkedExample(c) =>
        LET ws == WordTokens(chapterTokensMap[c])
        IN  /\ ws[2].start = Some(Cs(45))
            /\ ws[2].end = Some(Cs(75))
            /\ ws[1].end[1] < ws[2].start[1]
            /\ ws[2].end[1] < ws[3].start[1]

C10_Witness ==
  /\ Rendered
  /\ \E c \in DOMAIN chapterTokensMap :
       /\ IsWorkedExample(c)
       /\ WordTokens(firstPassMap[c])[2].start = None
       /\ IsTimed(WordTokens(chapterTokensMap[c])[2])

\* Word i of chapter c was left untimed by the alignment and the interpolation
\* finds no neighbour for it on either side.
NoNeighbour(c, i) == i \in Unmatched(c) /\ ~HasPrev(c, i) /\ ~HasNext(c, i)

\* C11: a word token with no earlier word that has an end and no later word
\* that has a start stays untimed after the interpolation pass; its click does
\* not call onJumpToWord and it is never shown as the current word.
C11_NoNeighbourUntimed ==
  Rendered =>
    \A c \in DOMAIN chapterTokensMap :
      \A i \in Unmatched(c) :
        NoNeighbour(c, i) =>
          LET token == chapterTokensMap[c][i]
          IN  /\ token.start = None
              /\ token.end = None
              /\ ~CallsOnJumpToWord(token)
              /\ \A t \in PlaybackTimes \cup {currentTime} : ~isCurrentWord(t, token)

C11_Witness ==
  /\ Rendered
  /\ \E c \in DOMAIN chapterTokensMap :
       /\ Relevant(c) # <<>>
       /\ \E i \in Unmatched(c) : NoNeighbour(c, i)

\* The whitespace-delimited fragments of chapter c's text.
Fragments(c) == NonSpaceRuns(ChapterText(c))

\* The texts of tokens, concatenated.
ConcatTexts(tokens) ==
  LET cat[n \in 0..Len(tokens)] == IF n = 0 THEN <<>> ELSE cat[n - 1] \o tokens[n].text
  IN  cat[Len(tokens)]

\* The isPunctuation flags of tokens, in order.
Flags(tokens) == [n \in DOMAIN tokens |-> tokens[n].isPunctuation]

\* Optional leading punctuation, one word, optional trailing punctuation.
FragmentShapes ==
  {<<FALSE>>, <<TRUE, FALSE>>, <<FALSE, TRUE>>, <<TRUE, FALSE, TRUE>>}

\* C12: every whitespace-delimited fragment of a chapter's text yields one to
\* three tokens (optional leading punctuation, one word, optional trailing
\* punctuation); a fragment of punctuation only yields one punctuation token,
\* a fragment without punctuation one word token holding the fragment
\* unchanged, and the token texts of a fragment concatenate to the fragment.
\* The tokens of the chapter are those of its fragments, in order.
C12_TokenizerClassification ==
  Rendered =>
    \A c \in DOMAIN chapterTokensMap :
      /\ [n \in DOMAIN chapterTokensMap[c] |->
            Tok(chapterTokensMap[c][n].text, chapterTokensMap[c][n].isPunctuation)]
           = TokenizeParts(Fragments(c))
      /\ \A f \in DOMAIN Fragments(c) :
           LET part   == Fragments(c)[f]
               tokens == TokenizePart(part)
           IN  /\ Len(tokens) \in 1..3
               /\ IF \A n \in DOMAIN part : part[n] \in PunctChars
                     THEN tokens = <<Tok(part, TRUE)>>
                     ELSE Flags(tokens) \in FragmentShapes
               /\ (\A n \in DOMAIN part : part[n] \notin PunctChars)
                    => tokens = <<Tok(part, FALSE)>>
               /\ ConcatTexts(tokens) = part

\* Token carries no timestamp.
Untimed(token) == token.start = None /\ token.end = None

\* C13: in the token sequence of every chapter, after the alignment and after
\* the interpolation, and in the aligned tokens of the whole transcript, a
\* punctuation token has neither start nor end; the neighbour times the
\* interpolation finds for a word are times of word tokens.
C13_PunctuationUntimed ==
  Rendered =>
    /\ LET aligned == alignedTokens
       IN  \A n \in DOMAIN aligned : aligned[n].isPunctuation => Untimed(aligned[n])
    /\ \A c \in DOMAIN chapterTokensMap :
         LET before == firstPassMap[c]
             after  == chapterTokensMap[c]
         IN  \A i \in DOMAIN after :
               /\ before[i].isPunctuation = after[i].isPunctuation
               /\ after[i].isPunctuation => Untimed(before[i]) /\ Untimed(after[i])
               /\ PrevTime(after, i) # None =>
                    \E j \in 1..(i - 1) : IsWord(after[j]) /\ after[j].end = PrevTime(after, i)
               /\ NextTime(before, i) # None =>
                    \E j \in (i + 1)..Len(before) :
                      IsWord(before[j]) /\ before[j].start = NextTime(before, i)

\* A punctuation token stands between an interpolated word and the timed word
\* the interpolation took its time from.
C13_Witness ==
  /\ Rendered
  /\ \E n \in DOMAIN alignedTokens : alignedTokens[n].isPunctuation
  /\ \E n \in DOMAIN alignedTokens : alignedTokens[n].start # None
  /\ \E c \in DOMAIN chapterTokensMap :
       \E i \in Unmatched(c) :
         /\ i > 2
         /\ chapterTokensMap[c][i - 1].isPunctuation
         /\ IsTimed(firstPassMap[c][i - 2])
         /\ chapterTokensMap[c][i].start = Some(firstPassMap[c][i - 2].end[1] + Cs(5))

\* token, and token marked as punctuation, without its start, without its end.
Degraded(token) ==
  {[token EXCEPT !.isPunctuation = TRUE],
   [token EXCEPT !.start = None],
   [token EXCEPT !.end = None]}

\* C14: at every playback time, isCurrentToken is false for a token that is
\* punctuation or lacks a start or an end; this is checked on every token
\* shown and on each of them with the flag set or a timestamp taken away.
C14_InactiveWithoutTimes ==
  Rendered =>
    \A c \in DOMAIN chapterTokensMap :
      \A i \in DOMAIN chapterTokensMap[c] :
        \A token \in {chapterTokensMap[c][i]} \cup Degraded(chapterTokensMap[c][i]) :
          (token.isPunctuation \/ token.start = None \/ token.end = None) =>
            \A t \in PlaybackTimes \cup {currentTime} : ~isCurrentToken(t, token)

\* The player is at a time where a timed word is active, next to a
\* punctuation token; the same word would be active had it kept its times.
C14_Witness ==
  /\ Rendered
  /\ \E c \in DOMAIN chapterTokensMap :
       \E i, j \in DOMAIN chapterTokensMap[c] :
         /\ chapterTokensMap[c][i].isPunctuation
         /\ isCurrentToken(currentTime, chapterTokensMap[c][j])
         /\ \A token \in Degraded(chapterTokensMap[c][j]) :
              ~isCurrentToken(currentTime, token)

\* The tokens of chapter c's text, as the alignment receives them.
ChapterTokens(c) == tokenize(ChapterText(c))

HasWordToken(tokens) == \E n \in DOMAIN tokens : ~tokens[n].isPunctuation

\* C15: when a chapter has no word token, or no speech word lies in its time
\* window, the map from chapter word index to timestamp is empty and every
\* token of the chapter is emitted untimed and stays untimed after the
\* interpolation; an empty chapter text yields no token.
C15_EmptySequences ==
  Rendered =>
    \A c \in DOMAIN chapterTokensMap :
      /\ (~HasWordToken(ChapterTokens(c)) \/ Relevant(c) = <<>>) =>
           /\ DOMAIN WordTimestampMap(ChapterTokens(c), Relevant(c)) = {}
           /\ Len(firstPassMap[c]) = Len(ChapterTokens(c))
           /\ Len(chapterTokensMap[c]) = Len(ChapterTokens(c))
           /\ \A i \in DOMAIN chapterTokensMap[c] :
                /\ chapterTokensMap[c][i].text = ChapterTokens(c)[i].text
                /\ Untimed(firstPassMap[c][i])
                /\ Untimed(chapterTokensMap[c][i])
      /\ ChapterText(c) = <<>> => chapterTokensMap[c] = <<>>

\* A chapter with several word tokens and no speech word in its window.
C15_Witness ==
  /\ Rendered
  /\ \E c \in DOMAIN chapterTokensMap :
       /\ Relevant(c) = <<>>
       /\ Len(WordTokens(chapterTokensMap[c])) > 1

\* Some unchanged part of diff counts a speech word at or past position n,
\* the running speech index starting at whisperWordIdx.
RECURSIVE Overruns(_, _, _)
Overruns(diff, whisperWordIdx, n) ==
  IF diff = <<>> THEN FALSE
  ELSE
    LET part      == Head(diff)
        wordCount == Len(part.value)
    IN  IF part.removed THEN Overruns(Tail(diff), whisperWordIdx, n)
        ELSE \/ ~part.added /\ wordCount > 0 /\ whisperWordIdx + wordCount > n
             \/ Overruns(Tail(diff), whisperWordIdx + wordCount, n)

\* The diff of chapter c's words with the speech words of its window.
ChapterDiff(c) ==
  diffWords(Join(ChapterWords(ChapterTokens(c)), <<" ">>),
            Join(WhisperWords(Relevant(c)), <<" ">>))

\* C16: the computation of the chapter tokens never raises an exception,
\* whatever the chapters and the speech words are; it yields for every chapter
\* the complete list of the chapter's tokens, in which a word has both a start
\* and an end or neither and punctuation has neither.
C16_NoException ==
  /\ pc # "error"
  /\ Rendered =>
       /\ DOMAIN chapterTokensMap = DOMAIN chapters
       /\ \A c \in DOMAIN chapters :
            /\ Len(chapterTokensMap[c]) = Len(ChapterTokens(c))
            /\ \A i \in DOMAIN chapterTokensMap[c] :
                 LET token == chapterTokensMap[c][i]
                 IN  /\ token.text = ChapterTokens(c)[i].text
                     /\ token.isPunctuation = ChapterTokens(c)[i].isPunctuation
                     /\ (token.start = None) = (token.end = None)
                     /\ token.isPunctuation => Untimed(token)

\* The tokens are rendered for a chapter list that holds a chapter with no
\* sentence and one whose diff counts more speech words than its window has.
C16_Witness ==
  /\ Rendered
  /\ \E c \in DOMAIN chapters : chapters[c].sentences = <<>>
  /\ \E c \in DOMAIN chapters :
       /\ ChapterTokens(c) # <<>>
       /\ Overruns(ChapterDiff(c), 0, Len(Relevant(c)))

InWindow(chapter, wt) ==
  /\ chapter.startTime - Cs(200) <= wt.startTime
  /\ wt.startTime <= chapter.endTime + Cs(200)

\* Positions in wordTimestamps of the words in chapter c's window.
WindowPositions(c) ==
  {k \in DOMAIN wordTimestamps : InWindow(chapters[c], wordTimestamps[k])}

\* The n-th smallest element of a set of numbers.
NthOf(S, n) == CHOOSE k \in S : Cardinality({j \in S : j < k}) = n - 1

\* C18: the speech words given to the aligner for a chapter are exactly the
\* words of wordTimestamps whose startTime lies within 2 s of the chapter's
\* span, in their original order, and every token the alignment times carries
\* the start and end of one of these words.
C18_TimeWindow ==
  Rendered =>
    \A c \in DOMAIN chapterTokensMap :
      LET relevant  == Relevant(c)
          positions == WindowPositions(c)
      IN  /\ Len(relevant) = Cardinality(positions)
          /\ \A n \in DOMAIN relevant :
               relevant[n] = wordTimestamps[NthOf(positions, n)]
          /\ \A i \in DOMAIN firstPassMap[c] :
               firstPassMap[c][i].start # None =>
                 \E k \in positions :
                   /\ firstPassMap[c][i].start = Some(wordTimestamps[k].startTime)
                   /\ firstPassMap[c][i].end = Some(wordTimestamps[k].endTime)

\* A chapter with a speech word inside its window that times a token, and a
\* speech word outside it whose text is that of a token the alignment left
\* untimed.
C18_Witness ==
  /\ Rendered
  /\ \E c \in DOMAIN chapterTokensMap :
       /\ \E i \in DOMAIN firstPassMap[c] : IsTimed(firstPassMap[c][i])
       /\ \E k \in DOMAIN wordTimestamps \ WindowPositions(c) :
            \E i \in Unmatched(c) :
              normalize(firstPassMap[c][i].text) = normalize(wordTimestamps[k].word)

\* Every chapter ends no earlier than it starts and no later than the next
\* chapter starts.
Ordered(chs) ==
  /\ \A i \in DOMAIN chs : chs[i].startTime <= chs[i].endTime
  /\ \A i \in 1..(Len(chs) - 1) : chs[i].endTime <= chs[i + 1].startTime

\* time lies in the window findCurrentChapterIndex gives chapter idx (1-based).
InChapterWindow(time, chs, idx) ==
  /\ time >= chs[idx].startTime - Cs(1)
  /\ IF idx = Len(chs) THEN time <= chs[idx].endTime + Cs(1)
                        ELSE time < chs[idx].endTime - Cs(1)

\* The starts and ends of the chapters, the times 0.01 s around them, and the
\* times the audio element reports.
ProbeTimes(chs) ==
  PlaybackTimes
  \cup UNION {{chs[i].startTime + d, chs[i].endTime + d} :
               i \in DOMAIN chs, d \in {-Cs(1), 0, Cs(1)}}

\* C19: in a chapter list where every chapter ends no earlier than it starts
\* and no later than the next one starts, findCurrentChapterIndex at the start
\* of chapter i is i, and no time lies in the windows of two chapters; for the
\* empty chapter list the result is -1.
C19_SeekSelectsChapter ==
  /\ \A t \in PlaybackTimes \cup {currentTime} : findCurrentChapterIndex(t, <<>>) = -1
  /\ (pc \in {"mounted", "rendered"} /\ Ordered(chapters)) =>
       /\ \A i \in DOMAIN chapters :
            findCurrentChapterIndex(chapters[i].startTime, chapters) = i - 1
       /\ \A t \in ProbeTimes(chapters) :
            Cardinality({i \in DOMAIN chapters : InChapterWindow(t, chapters, i)}) <= 1

\* C20: the chapters addTimestampsToChapters returns for a chronologically
\* ordered transcript do not overlap: each chapter ends no later than the
\* next one starts.
C20_ChaptersDoNotOverlap ==
  pc = "stored" =>
    \A i \in 1..(Len(chapters) - 1) : chapters[i].endTime <= chapters[i + 1].startTime

\* ------------------------------------ recordings and transcription passes

\* findMany's take: a pass processes up to 5 recordings.
take == 5

\* Uploads made in a run of the server.
MaxUploads == 2

\* The player is not part of the server's runs.
PlayerIdle ==
  /\ chaptersData = <<>>
  /\ chapters = <<>>
  /\ wordTimestamps = <<>>
  /\ chapterTokensMap = <<>>
  /\ firstPassMap = <<>>
  /\ currentTime = 0
  /\ currentChapterIndex = -1
  /\ pc = "unmounted"

InitServer == PlayerIdle /\ ServerIdle

\* Recording ids are the positions in the table, in the order of createdAt.
RecordingIds == DOMAIN recordings

\* A process-transcription request that has been sent and has not yet read
\* the table.  caller is "upload" for the request an upload sends and
\* "script" for the one of process-transcriptions.js or a cron job.
NewPass(caller) == [pc |-> "select", caller |-> caller, pendingRecordings |-> <<>>]

\* where: { status: 'processing', transcript: null }
Pending ==
  {id \in RecordingIds : recordings[id].status = "processing" /\ id \notin transcripts}

RECURSIVE Oldest(_, _)
\* orderBy: { createdAt: 'asc' }, take: n
Oldest(ids, n) ==
  IF n = 0 \/ ids = {} THEN <<>>
  ELSE LET first == CHOOSE id \in ids : \A other \in ids : id <= other
       IN  <<first>> \o Oldest(ids \ {first}, n - 1)

\* The recordings a pass is going to process.
SelectPendingRecordings(recordingId) ==
  IF recordingId # None
    THEN IF recordingId[1] \in RecordingIds
              /\ recordings[recordingId[1]].status = "processing"
           THEN <<recordingId[1]>> ELSE <<>>
    ELSE Oldest(Pending, take)

\* The requests in flight with pass p replaced by its next state.
Replace(p, q) == (passes (-) SetToBag({p})) (+) SetToBag({q})

\* Pass p has handled the recording at the head of its list: it goes on
\* with the next one, or responds.
Advance(p) ==
  IF Len(p.pendingRecordings) > 1
    THEN Replace(p, [p EXCEPT !.pc = "transcribe",
                              !.pendingRecordings = Tail(p.pendingRecordings)])
    ELSE passes (-) SetToBag({p})

\* How often transcribeAudio was called for a recording: never, once, or
\* repeatedly.
Counted(n) == IF n = "never" THEN "once" ELSE "repeatedly"

\* upload: prisma.recording.create with status 'pending'.
CreateRecordingUpTo(limit) ==
  /\ Len(recordings) < limit
  /\ recordings' = Append(recordings, [status |-> "pending"])
  /\ calls' = Append(calls, "never")
  /\ UNCHANGED <<transcripts, passes, comments, response>>
  /\ UNCHANGED playerVars

CreateRecording == CreateRecordingUpTo(MaxUploads)

\* upload: the recording is marked 'processing' and a process-transcription
\* request is sent without awaiting its result.
MarkProcessing(id) ==
  /\ id \in RecordingIds
  /\ recordings[id].status = "pending"
  /\ recordings' = [recordings EXCEPT ![id].status = "processing"]
  /\ passes' = passes (+) SetToBag({NewPass("upload")})
  /\ UNCHANGED <<transcripts, calls, comments, response>>
  /\ UNCHANGED playerVars

\* upload, in the copy of the route that transcribes by itself: the recording
\* is marked 'processing' and processTranscriptionInBackground is started for
\* it without awaiting its result.  The background function makes the calls
\* of a pass for this one recording.
MarkProcessingInBackground(id) ==
  /\ id \in RecordingIds
  /\ recordings[id].status = "pending"
  /\ recordings' = [recordings EXCEPT ![id].status = "processing"]
  /\ passes' = passes (+) SetToBag({[pc |-> "transcribe", caller |-> "upload",
                                     pendingRecordings |-> <<id>>]})
  /\ UNCHANGED <<transcripts, calls, comments, response>>
  /\ UNCHANGED playerVars

\* process-transcriptions.js, or a cron job, sends a request; it awaits the
\* response, so that it has one request in flight at a time.
processTranscriptions ==
  /\ \A p \in BagToSet(passes) : p.caller # "script"
  /\ passes' = passes (+) SetToBag({NewPass("script")})
  /\ UNCHANGED <<recordings, transcripts, calls, comments, response>>
  /\ UNCHANGED playerVars

\* process-transcription: the pass reads the recordings it will process, and
\* responds at once when there are none.  recordingId is the id in the body
\* of the request, or None; the request of an upload has an empty body.
SelectPending(p, recordingId) ==
  /\ p.pc = "select"
  /\ p.caller = "upload" => recordingId = None
  /\ LET pendingRecordings == SelectPendingRecordings(recordingId)
     IN  passes' = IF Len(pendingRecordings) = 0
                     THEN passes (-) SetToBag({p})
                     ELSE Replace(p, [p EXCEPT !.pc = "transcribe",
                                               !.pendingRecordings = pendingRecordings])
  /\ UNCHANGED <<recordings, transcripts, calls, comments, response>>
  /\ UNCHANGED playerVars

\* process-transcription: transcribeAudio and generateChapters for the
\* recording at the head of the list; the speech engine answers or throws.
TranscribeAudio(p, answers) ==
  /\ p.pc = "transcribe"
  /\ calls' = [calls EXCEPT ![Head(p.pendingRecordings)] = Counted(@)]
  /\ passes' = Replace(p, [p EXCEPT !.pc = IF answers THEN "create" ELSE "fail"])
  /\ UNCHANGED <<recordings, transcripts, comments, response>>
  /\ UNCHANGED playerVars

CreateTranscript_NotStored(p) ==
  /\ p.pc = "create"
  /\ passes' = Replace(p, [p EXCEPT !.pc = "complete"])
  /\ UNCHANGED <<recordings, transcripts, calls, comments, response>>
  /\ UNCHANGED playerVars

\* process-transcription: prisma.transcript.create; the unique index on
\* recordingId rejects a second transcript of the recording.
CreateTranscript(p) ==
  /\ p.pc = "create"
  /\ LET id == Head(p.pendingRecordings)
     IN  IF id \in transcripts
           THEN /\ passes' = Replace(p, [p EXCEPT !.pc = "fail"])
                /\ UNCHANGED transcripts
           ELSE /\ transcripts' = transcripts \cup {id}
                /\ passes' = Replace(p, [p EXCEPT !.pc = "complete"])
  /\ UNCHANGED <<recordings, calls, comments, response>>
  /\ UNCHANGED playerVars

\* process-transcription: status 'completed' after the transcript is stored.
UpdateCompleted(p) ==
  /\ p.pc = "complete"
  /\ recordings' = [recordings EXCEPT ![Head(p.pendingRecordings)].status = "completed"]
  /\ passes' = Advance(p)
  /\ UNCHANGED <<transcripts, calls, comments, response>>
  /\ UNCHANGED playerVars

\* process-transcription: the catch block sets status 'failed'.
UpdateFailed(p) ==
  /\ p.pc = "fail"
  /\ recordings' = [recordings EXCEPT ![Head(p.pendingRecordings)].status = "failed"]
  /\ passes' = Advance(p)
  /\ UNCHANGED <<transcripts, calls, comments, response>>
  /\ UNCHANGED playerVars

\* The bodies a request can have: no id (all pending recordings), or the id
\* of one recording (which may not exist yet).
RecordingIdInputs == {None} \cup {Some(id) : id \in 1..MaxUploads}

\* Uploads, requests of the script or a cron job, and the passes they start, in any
\* interleaving of their database calls.
NextServer ==
  \/ CreateRecording
  \/ \E id \in RecordingIds : MarkProcessing(id)
  \/ processTranscriptions
  \/ \E p \in BagToSet(passes), recordingId \in RecordingIdInputs :
       SelectPending(p, recordingId)
  \/ \E p \in BagToSet(passes), answers \in BOOLEAN : TranscribeAudio(p, answers)
  \/ \E p \in BagToSet(passes) : CreateTranscript(p)
  \/ \E p \in BagToSet(passes) : UpdateCompleted(p)
  \/ \E p \in BagToSet(passes) : UpdateFailed(p)

SpecServer == InitServer /\ [][NextServer]_vars

\* The server with either copy of the upload route: an upload sends a
\* request, or transcribes in the background.
NextBackground ==
  \/ \E id \in RecordingIds : MarkProcessingInBackground(id)
  \/ NextServer

SpecBackground == InitServer /\ [][NextBackground]_vars

\* One more upload than a pass takes.
CreateBacklogRecording == CreateRecordingUpTo(take + 1)

\* No pass is between transcribeAudio and the status update of a recording.
BetweenRecordings ==
  \A p \in BagToSet(passes) : p.pc \in {"select", "transcribe"}

\* Every upload of the burst has sent its request.
Uploaded ==
  /\ Len(recordings) = take + 1
  /\ \A id \in RecordingIds : recordings[id].status # "pending"

\* A burst of uploads with a speech engine that answers, and no request but
\* the one each upload sends.  Of the interleavings, the ones in which the
\* requests reach the route when the burst is over, and a pass handles a
\* recording without another request coming in between.
NextBacklog ==
  \/ CreateBacklogRecording
  \/ \E id \in RecordingIds : MarkProcessing(id)
  \/ \E p \in BagToSet(passes) : Uploaded /\ BetweenRecordings /\ SelectPending(p, None)
  \/ \E p \in BagToSet(passes) : BetweenRecordings /\ TranscribeAudio(p, TRUE)
  \/ \E p \in BagToSet(passes) : CreateTranscript(p)
  \/ \E p \in BagToSet(passes) : UpdateCompleted(p)
  \/ \E p \in BagToSet(passes) : UpdateFailed(p)

SpecBacklog == InitServer /\ [][NextBacklog]_vars

TypeOKServer ==
  /\ \A id \in RecordingIds :
       recordings[id].status \in {"pending", "processing", "completed", "failed"}
  /\ transcripts \subseteq RecordingIds
  /\ DOMAIN calls = RecordingIds
  /\ \A p \in BagToSet(passes) :
       /\ p.pc \in {"select", "transcribe", "create", "complete", "fail"}
       /\ p.pc # "select" => Len(p.pendingRecordings) > 0

\* ------------------------------------------------------------ files route

\* process.cwd(), as the segments of an absolute path: /app
Cwd == <<<<"a", "p", "p">>>>

UploadDirName == <<"u", "p", "l", "o", "a", "d", "s">>

\* process.env.UPLOAD_DIR || './uploads'
uploadDir == <<".", "/">> \o UploadDirName

\* A directory next to the upload directory: /app/uploads2
SiblingName == UploadDirName \o <<"2">>

FileName == <<"a">>

\* The files on the disk, as absolute paths: one in the upload directory,
\* one in the directory next to it, one in the working directory.
Files ==
  {Cwd \o <<UploadDirName, FileName>>, Cwd \o <<SiblingName, FileName>>,
   Cwd \o <<FileName>>}

RECURSIVE SplitPath(_, _)
\* The segments of a path string between its slashes; cur is the segment
\* being read.
SplitPath(path, cur) ==
  IF path = <<>> THEN <<cur>>
  ELSE IF Head(path) = "/" THEN <<cur>> \o SplitPath(Tail(path), <<>>)
  ELSE SplitPath(Tail(path), Append(cur, Head(path)))

RECURSIVE NormalizeSegments(_, _, _)
\* path.normalize over segments: empty and "." segments are dropped, ".."
\* removes the segment before it; above the start of a relative path ".."
\* stays, above the root it is dropped.
NormalizeSegments(segments, out, isAbsolute) ==
  IF segments = <<>> THEN out
  ELSE LET segment == Head(segments)
           rest    == Tail(segments)
       IN  IF segment = <<>> \/ segment = <<".">>
             THEN NormalizeSegments(rest, out, isAbsolute)
           ELSE IF segment = <<".", ".">>
             THEN IF out # <<>> /\ out[Len(out)] # <<".", ".">>
                    THEN NormalizeSegments(rest, SubSeq(out, 1, Len(out) - 1), isAbsolute)
                  ELSE IF isAbsolute THEN NormalizeSegments(rest, out, isAbsolute)
                  ELSE NormalizeSegments(rest, Append(out, segment), isAbsolute)
           ELSE NormalizeSegments(rest, Append(out, segment), isAbsolute)

\* path.join(a, b) of two relative path strings, as segments.
pathJoin(a, b) == NormalizeSegments(SplitPath(a \o <<"/">> \o b, <<>>), <<>>, FALSE)

\* path.resolve(path) of a relative path, as the segments of an absolute one.
pathResolve(segments) == NormalizeSegments(Cwd \o segments, <<>>, TRUE)

\* The string of an absolute path.
PathString(segments) == <<"/">> \o Join(segments, <<"/">>)

\* String.prototype.startsWith
startsWith(str, prefix) ==
  Len(prefix) <= Len(str) /\ SubSeq(str, 1, Len(prefix)) = prefix

\* The path the route resolves a request to.
ResolvedPath(pathArray) == pathResolve(pathJoin(uploadDir, Join(pathArray, <<"/">>)))

ResolvedUploadDir == pathResolve(SplitPath(uploadDir, <<>>))

\* GET /api/files/[...path]: 403 when the check refuses the path, the file
\* when fs.readFile finds one, 404 when it throws.  read is the file that
\* was read, if any.
FilesGET(pathArray) ==
  /\ LET resolvedPath == ResolvedPath(pathArray)
     IN  response' =
           IF ~startsWith(PathString(resolvedPath), PathString(ResolvedUploadDir))
             THEN [pathArray |-> pathArray, status |-> 403, read |-> None]
           ELSE IF resolvedPath \in Files
             THEN [pathArray |-> pathArray, status |-> 200, read |-> Some(resolvedPath)]
           ELSE [pathArray |-> pathArray, status |-> 404, read |-> None]
  /\ UNCHANGED <<recordings, transcripts, passes, calls, comments>>
  /\ UNCHANGED playerVars

\* Segments of a request; a segment comes decoded, so that it can hold a slash.
MaxSegments == 3

RequestSegments ==
  {<<".", ".">>, <<".">>, FileName, UploadDirName, SiblingName,
   <<".", ".", "/">> \o SiblingName}

PathArrays ==
  UNION {[1..n -> RequestSegments] : n \in 1..MaxSegments}

NextFiles == \E pathArray \in PathArrays : FilesGET(pathArray)

SpecFiles == InitServer /\ [][NextFiles]_vars

\* --------------------------------------------------------- comments route

\* userName.length > 50 is refused.
MaxUserNameLength == 50

\* text.length > 1000 is refused.
MaxTextLength == 1000

\* Comments stored in a run.
MaxComments == 2

\* Comment ids are the positions in the table.
CommentIds == DOMAIN comments

\* JavaScript !s for an optional string: undefined and "" are falsy.
FalsyString(s) == s = None \/ s = Some(<<>>)

\* A string of n characters.
StringOfLength(n) == [i \in 1..n |-> "x"]

\* Two recordings exist and are transcribed; no comment is stored.
InitComments ==
  /\ PlayerIdle
  /\ recordings = <<[status |-> "completed"], [status |-> "completed"]>>
  /\ transcripts = DOMAIN recordings
  /\ calls = <<"once", "once">>
  /\ passes = EmptyBag
  /\ comments = <<>>
  /\ response = <<>>

\* The status the route answers with, and "created" for 201.
CommentResponse_ParentUnchecked(recordingId, body) ==
  IF FalsyString(body.userName) \/ FalsyString(body.text) THEN 400
  ELSE IF Len(body.userName[1]) > MaxUserNameLength THEN 400
  ELSE IF Len(body.text[1]) > MaxTextLength THEN 400
  ELSE IF body.timestamp # None /\ body.timestamp[1] < 0 THEN 400
  ELSE IF recordingId \notin RecordingIds THEN 404
  ELSE IF body.parentId # None /\ body.parentId[1] \notin CommentIds THEN 404
  ELSE 201

\* POST comments: the checks of the route in their order, and the status of
\* the first one that refuses the request; 201 when none does.
CommentResponse(recordingId, body) ==
  IF FalsyString(body.userName) \/ FalsyString(body.text) THEN 400
  ELSE IF Len(body.userName[1]) > MaxUserNameLength THEN 400
  ELSE IF Len(body.text[1]) > MaxTextLength THEN 400
  ELSE IF body.timestamp # None /\ body.timestamp[1] < 0 THEN 400
  ELSE IF recordingId \notin RecordingIds THEN 404
  ELSE IF body.parentId # None /\ body.parentId[1] \notin CommentIds THEN 404
  ELSE IF body.parentId # None /\ comments[body.parentId[1]].recordingId # recordingId
    THEN 400
  ELSE 201

\* prisma.comment.create: the row that is stored.
NewComment(recordingId, body) ==
  [recordingId |-> recordingId,
   userName    |-> Trim(body.userName[1]),
   text        |-> Trim(body.text[1]),
   timestamp   |-> body.timestamp,
   parentId    |-> body.parentId]

\* POST /api/recordings/[id]/comments
CommentsPOST(recordingId, body) ==
  /\ Len(comments) < MaxComments
  /\ LET status == CommentResponse(recordingId, body)
     IN  /\ response' = [recordingId |-> recordingId, body |-> body, status |-> status]
         /\ comments' = IF status = 201
                          THEN Append(comments, NewComment(recordingId, body))
                          ELSE comments
  /\ UNCHANGED <<recordings, transcripts, passes, calls>>
  /\ UNCHANGED playerVars

\* The bodies of the requests.  Well-formed ones: a comment or a reply to
\* any comment id (which may not exist), with or without a timestamp.  And
\* the others: userName and text absent, empty, within the limit and one
\* character over it, timestamp absent, negative and positive, in every
\* combination, as a comment or as a reply to the first comment.
CommentBodies ==
  [userName  : {Some(<<"a", " ">>)},
   text      : {Some(<<"h", "i">>)},
   timestamp : {None, Some(Cs(100))},
   parentId  : {None} \cup {Some(id) : id \in 1..(MaxComments + 1)}]
  \cup
  [userName  : {None, Some(<<>>), Some(<<"a", " ">>),
                Some(StringOfLength(MaxUserNameLength + 1))},
   text      : {None, Some(<<"h", "i">>), Some(StringOfLength(MaxTextLength + 1))},
   timestamp : {None, Some(-Cs(100)), Some(Cs(100))},
   parentId  : {None, Some(1)}]

\* The recording of the request's path: one of the recordings, or an id
\* that no recording has.
NextComments ==
  \E recordingId \in 1..(Len(recordings) + 1), body \in CommentBodies :
    CommentsPOST(recordingId, body)

SpecComments == InitComments /\ [][NextComments]_vars

\* ------------------------------------------------- claims about the server

\* The recording has reached the end of its lifecycle.
Settled(id) == recordings[id].status \in {"completed", "failed"}

\* Every upload has sent its request and every pass has responded.
PassesDone ==
  /\ passes = EmptyBag
  /\ \A id \in RecordingIds : recordings[id].status # "pending"

\* C21: every uploaded recording is eventually transcribed or marked failed:
\* when every upload has triggered its pass and every triggered pass has run
\* to completion, every recording has status 'completed' or 'failed'.
C21_EveryRecordingSettled ==
  PassesDone => \A id \in RecordingIds : Settled(id)

\* The path is the directory or lies below it (both as segments).
Inside(path, dir) == Len(dir) <= Len(path) /\ SubSeq(path, 1, Len(dir)) = dir

\* C22: file serving stays inside the upload directory: the files route reads
\* a file only if its resolved path is the upload directory or a descendant
\* of it, and a request that resolves to a path outside it gets 403 and no
\* file is read.
C22_ServesOnlyUploadDir ==
  response # <<>> =>
    /\ response.read # None => Inside(response.read[1], ResolvedUploadDir)
    /\ ~Inside(ResolvedPath(response.pathArray), ResolvedUploadDir) =>
         response.status = 403 /\ response.read = None

\* C23: at-most-once transcription under concurrency: across any interleaving
\* of process-transcription passes, no recording is transcribed by two
\* passes: transcribeAudio is called at most once per recording.
C23_TranscribedAtMostOnce ==
  \A id \in RecordingIds : calls[id] # "repeatedly"

\* C24: the status of a recording is a forward-only lifecycle: once it is
\* 'completed' it never changes again, whatever passes run.
C24_CompletedIsFinal ==
  [][\A id \in RecordingIds :
       recordings[id].status = "completed" => recordings'[id].status = "completed"]_vars

\* C25: completed implies transcript: in every reachable state a recording
\* whose status is 'completed' has a stored transcript row.
C25_CompletedHasTranscript ==
  \A id \in RecordingIds : recordings[id].status = "completed" => id \in transcripts

\* A recording is completed while another pass still has it on its list.
C25_Witness ==
  \E id \in RecordingIds :
    /\ recordings[id].status = "completed"
    /\ id \in transcripts
    /\ \E p \in BagToSet(passes) :
         \E i \in DOMAIN p.pendingRecordings : p.pendingRecordings[i] = id

\* Every stored reply has a parent that exists and belongs to the recording
\* of the reply.
RepliesStayInRecording ==
  \A id \in CommentIds :
    comments[id].parentId # None =>
      /\ comments[id].parentId[1] \in CommentIds
      /\ comments[comments[id].parentId[1]].recordingId = comments[id].recordingId

\* userName or text is missing or too long, or the timestamp is negative.
InvalidBody(body) ==
  \/ body.userName = None \/ body.userName = Some(<<>>)
  \/ body.text = None \/ body.text = Some(<<>>)
  \/ Len(body.userName[1]) > MaxUserNameLength
  \/ Len(body.text[1]) > MaxTextLength
  \/ (body.timestamp # None /\ body.timestamp[1] < 0)

ParentMissing(body) ==
  body.parentId # None /\ body.parentId[1] \notin CommentIds

ParentElsewhere(recordingId, body) ==
  /\ body.parentId # None
  /\ body.parentId[1] \in CommentIds
  /\ comments[body.parentId[1]].recordingId # recordingId

\* What a POST answers and stores, the cases taken in the order of the
\* route's checks: an invalid body gets 400; a valid body with a missing
\* parent gets 404; a valid body for an existing recording with a parent of
\* another recording gets 400; and none of them stores a comment.
RefusedPost ==
  LET recordingId == response'.recordingId
      body        == response'.body
      status      == response'.status
  IN  /\ InvalidBody(body) => status = 400 /\ comments' = comments
      /\ ~InvalidBody(body) /\ ParentMissing(body) =>
           status = 404 /\ comments' = comments
      /\ ~InvalidBody(body) /\ recordingId \in RecordingIds
           /\ ParentElsewhere(recordingId, body) =>
           status = 400 /\ comments' = comments

Aligned(c) == {i \in DOMAIN firstPassMap[c] : IsTimed(firstPassMap[c][i])}

\* The unmatched words after the last word the alignment timed, and the
\* position of word i among them.
TrailingRun(c) ==
  {i \in DOMAIN firstPassMap[c] : IsWord(firstPassMap[c][i]) /\ i > Largest(Aligned(c))}

RankInRun(c, i) == Cardinality({k \in TrailingRun(c) : k <= i})

\* C27: the j-th word of a run of unmatched words that follows a timed word
\* with end e and has no timed word after it gets start = e + 0.05 +
\* (j - 1) * 0.55 and end = start + 0.5; and when the alignment timed at least
\* one word of a chapter, every word token of the chapter is timed after the
\* pass.
C27_InterpolationChains ==
  Rendered =>
    \A c \in DOMAIN chapterTokensMap :
      Aligned(c) # {} =>
        /\ \A i \in DOMAIN chapterTokensMap[c] :
             IsWord(chapterTokensMap[c][i]) => IsTimed(chapterTokensMap[c][i])
        /\ LET e == firstPassMap[c][Largest(Aligned(c))].end[1]
           IN  \A i \in TrailingRun(c) :
                 LET start == e + Cs(5) + (RankInRun(c, i) - 1) * Cs(55)
                 IN  /\ chapterTokensMap[c][i].start = Some(start)
                     /\ chapterTokensMap[c][i].end = Some(start + Cs(50))

\* Reached: a chapter whose first word is timed by the alignment and is
\* followed by a run of at least two unmatched words, the last one timed from
\* the interpolated end of the one before it.
C27_Witness ==
  /\ Rendered
  /\ \E c \in DOMAIN chapterTokensMap :
       /\ Aligned(c) # {}
       /\ \E i \in TrailingRun(c) :
            /\ RankInRun(c, i) >= 2
            /\ IsTimed(chapterTokensMap[c][i])
            /\ chapterTokensMap[c][i].start[1]
                 > firstPassMap[c][Largest(Aligned(c))].end[1] + Cs(50)

\* The speech words have 0 <= startTime <= endTime and are in chronological
\* order.
WellFormedSpeech ==
  /\ \A k \in DOMAIN wordTimestamps :
       0 <= wordTimestamps[k].startTime
         /\ wordTimestamps[k].startTime <= wordTimestamps[k].endTime
  /\ \A k \in 1..(Len(wordTimestamps) - 1) :
       wordTimestamps[k].endTime <= wordTimestamps[k + 1].startTime

\* C28: given such speech words, every word token that carries timestamps
\* after alignment and interpolation has 0 <= start <= end.
C28_WellFormedWindows ==
  (Rendered /\ WellFormedSpeech) =>
    \A c \in DOMAIN chapterTokensMap : \A i \in DOMAIN chapterTokensMap[c] :
      IsTimed(chapterTokensMap[c][i]) =>
        /\ 0 <= chapterTokensMap[c][i].start[1]
        /\ chapterTokensMap[c][i].start[1] <= chapterTokensMap[c][i].end[1]

====
